---- MODULE Spec2Model ----
(***************************************************************************)
(* Model of lakecli (src/src/main.rs): a one-shot command dispatcher over  *)
(* a two-variant Table handle (Delta / Parquet).                           *)
(*                                                                         *)
(* A table reference is a sequence of tokens.  The tokens "." and "/" are  *)
(* the only ones that contain a dot or a separator; "parquet" and "t" are  *)
(* atoms standing for those substrings, so the reference <<"t", ".",       *)
(* "parquet">> is the string "t.parquet".                                  *)
(* An Option<T> is a set: {} is None and {x} is Some(x).                   *)
(***************************************************************************)
EXTENDS Integers, Sequences, FiniteSets, TLC

MaxLen == 3          \* longest table reference, in tokens
MaxLimit == 3        \* largest --limit value
MaxVersion == 2      \* latest version of a Delta table (MaxVersion + 1 commits)

Alphabet == {"t", "parquet", ".", "/"}
Names == {"t", "events"}
Fallback == "t"

VARIABLES pc, command, table, ctx, calls, stdout, trace, exit

vars == <<pc, command, table, ctx, calls, stdout, trace, exit>>

(***************************************************************************)
(* Generic helpers                                                         *)
(***************************************************************************)
SeqsUpTo(S, n) == UNION {[1..k -> S] : k \in 0..n}

Take(s, n) == SubSeq(s, 1, IF n < Len(s) THEN n ELSE Len(s))

TheOne(S) == CHOOSE x \in S : TRUE

Positions(s, c) == {i \in 1..Len(s) : s[i] = c}

Max(S) == CHOOSE x \in S : \A y \in S : y <= x

(***************************************************************************)
(* std::path: Path::file_name and Path::extension, as used at line 169     *)
(***************************************************************************)
\* The i-th "/"-separated segment boundaries: segment ending at position e
\* (exclusive of separators) that starts right after the previous "/".
SegmentEndingAt(s, e) ==
    LET seps == {i \in Positions(s, "/") : i <= e}
        b == IF seps = {} THEN 1 ELSE Max(seps) + 1
    IN SubSeq(s, b, e)

\* Ends of the segments of s that Components yields when iterating from
\* the back: empty segments and "." segments are skipped.
ComponentEnds(s) ==
    {e \in 1..Len(s) :
        /\ s[e] # "/"
        /\ (e = Len(s) \/ s[e + 1] = "/")
        /\ SegmentEndingAt(s, e) # <<".">>}

\* Path::file_name: the last component when it is a normal one.
FileName(s) ==
    IF ComponentEnds(s) = {} THEN {}
    ELSE LET last == SegmentEndingAt(s, Max(ComponentEnds(s)))
         IN IF last = <<".", ".">> THEN {} ELSE {last}

\* rsplit_file_at_dot followed by before.and(after)
ExtensionOfFile(file) ==
    IF file = <<".", ".">> THEN {}
    ELSE IF Positions(file, ".") = {} THEN {}
    ELSE LET d == Max(Positions(file, "."))
         IN IF d = 1 THEN {} ELSE {SubSeq(file, d + 1, Len(file))}

Extension(s) ==
    IF FileName(s) = {} THEN {} ELSE ExtensionOfFile(TheOne(FileName(s)))

(***************************************************************************)
(* Values                                                                  *)
(***************************************************************************)
References == SeqsUpTo(Alphabet, MaxLen)

QueryFrom(n) == "SELECT COUNT(*) FROM " \o n

Queries == {""} \cup {QueryFrom(n) : n \in Names}

\* The table names a SQL text refers to.
TablesOf(sql) == {n \in Names : sql = QueryFrom(n)}

\* enum Commands: one record per subcommand with the fields it carries.
Commands ==
    {[name |-> c, table |-> r] :
        c \in {"files", "metadata", "schema", "version"}, r \in References}
    \cup {[name |-> "history", table |-> r, limit |-> l] :
        r \in References, l \in {{}} \cup {{n} : n \in 0..MaxLimit}}
    \cup {[name |-> "query", table |-> r, query |-> q] :
        r \in References, q \in Queries}

NoCommand == [name |-> "none"]

\* State of a DeltaTable the backend has loaded from uri.
DeltaTables(uri) ==
    {[uri |-> uri, version |-> v, name |-> n] :
        v \in 0..MaxVersion, n \in {{}} \cup {{x} : x \in Names}}

\* enum Table
DeltaTable(dt) == [kind |-> "Delta", delta_table |-> dt]
ParquetTable(path) == [kind |-> "Parquet", table_path |-> path]
NoTable == [kind |-> "None"]

\* enum Error and Result<(), Error>
Ok == [ok |-> TRUE, kind |-> "Ok", cause |-> "none", mentions |-> {}]
Err(kind, cause, mentions) ==
    [ok |-> FALSE, kind |-> kind, cause |-> cause, mentions |-> mentions]
UnknownTableFormat == Err("UnknownTableFormat", "none", {})
Delta(cause) == Err("Delta", cause, {})
DataFusion(cause, mentions) == Err("DataFusion", cause, mentions)

EmptyContext == <<>>

(***************************************************************************)
(* External collaborators: what each call answers                          *)
(***************************************************************************)
\* Choices the environment makes during one operation.
DefaultEnv ==
    [uris |-> {<<"part-0">>}, schema |-> {<<"id">>}, metadataOk |-> TRUE,
     historyOk |-> TRUE, parquetOk |-> TRUE, planOk |-> TRUE,
     planMentions |-> FALSE, showOk |-> TRUE]

FileLists == {<<>>, <<"part-0">>, <<"part-0", "part-1">>}
Schemas == {<<>>, <<"id">>}

\* DeltaTable::history: the commits most recent first, at most limit of them.
CommitsOf(dt) == [i \in 1..(dt.version + 1) |-> dt.version + 1 - i]

BackendHistory(dt, limit) ==
    IF limit = {} THEN CommitsOf(dt) ELSE Take(CommitsOf(dt), TheOne(limit))

\* SessionContext::register_table: a name already present is rejected.
CtxRegister(c, name, provider) ==
    IF name \in DOMAIN c
    THEN [result |-> DataFusion("TableExists", {}), ctx |-> c]
    ELSE [result |-> Ok,
          ctx |-> [n \in DOMAIN c \cup {name} |->
                      IF n = name THEN provider ELSE c[n]]]

\* SessionContext::table
CtxTable(c, name) ==
    IF name \in DOMAIN c
    THEN [result |-> Ok, dataframe |-> [rows |-> {c[name]}]]
    ELSE [result |-> DataFusion("TableNotFound", {}), dataframe |-> [rows |-> {}]]

\* SessionContext::sql: the names the text refers to are resolved in the
\* context; the engine decides whether the text plans.
CtxSql(c, sql, env) ==
    IF TablesOf(sql) \ DOMAIN c # {}
    THEN [result |-> DataFusion("TableNotFound", {}), dataframe |-> [rows |-> {}]]
    ELSE IF ~env.planOk
    THEN [result |-> DataFusion("Plan", IF env.planMentions THEN {sql} ELSE {}),
          dataframe |-> [rows |-> {}]]
    ELSE [result |-> Ok, dataframe |-> [rows |-> {c[n] : n \in TablesOf(sql)}]]

Call(api) == [api |-> api]

(***************************************************************************)
(* impl Table.  Every operation yields its Result, the session context it  *)
(* leaves, the lines it printed and the external calls it made, in order.  *)
(***************************************************************************)
Effect(res, c, out, cs) == [result |-> res, ctx |-> c, out |-> out, calls |-> cs]

\* The names register_table registers a Delta table under, in order: the
\* metadata's name when there is one, then always "t".
DeltaNames(dt) ==
    (IF dt.name # {} THEN <<TheOne(dt.name)>> ELSE <<>>) \o <<Fallback>>

\* ctx.register_table(name, delta_table.clone())? for each name in turn; the
\* first error ends the sequence.
RECURSIVE RegisterEach(_, _, _)
RegisterEach(self, c, names) ==
    IF names = <<>>
    THEN [result |-> Ok, ctx |-> c, calls |-> <<>>]
    ELSE LET r == CtxRegister(c, Head(names), self)
             cs == <<[api |-> "register_table", name |-> Head(names)]>>
         IN IF ~r.result.ok
            THEN [result |-> r.result, ctx |-> r.ctx, calls |-> cs]
            ELSE LET rest == RegisterEach(self, r.ctx, Tail(names))
                 IN [rest EXCEPT !.calls = cs \o rest.calls]

\* ctx.table("t").await.map_err(|err| err.into())
TableT(r) ==
    IF ~r.result.ok
    THEN [result |-> r.result, ctx |-> r.ctx, calls |-> r.calls,
          dataframe |-> [rows |-> {}]]
    ELSE LET t == CtxTable(r.ctx, Fallback)
         IN [result |-> t.result, ctx |-> r.ctx,
             calls |-> r.calls \o <<[api |-> "table", name |-> Fallback]>>,
             dataframe |-> t.dataframe]

\* The Parquet arm of register_table.
RegisterParquet(self, c, env) ==
    LET cs == <<[api |-> "register_parquet", name |-> Fallback,
                 path |-> self.table_path]>>
    IN IF ~env.parquetOk
       THEN [result |-> DataFusion("register_parquet", {}), ctx |-> c, calls |-> cs]
       ELSE LET r == CtxRegister(c, Fallback, self)
            IN [result |-> r.result, ctx |-> r.ctx, calls |-> cs]

\* The Delta arm of register_table, registering under the given names.
RegisterDelta(self, c, env, names) ==
    LET cs == <<Call("DeltaTable::metadata")>>
    IN IF ~env.metadataOk
       THEN [result |-> Delta("metadata"), ctx |-> c, calls |-> cs]
       ELSE LET r == RegisterEach(self, c, names)
            IN [r EXCEPT !.calls = cs \o r.calls]

\* register_table without line 140-142: only "t" is registered.
register_table_fallback_only(self, c, env) ==
    IF self.kind = "Delta"
    THEN TableT(RegisterDelta(self, c, env, <<Fallback>>))
    ELSE TableT(RegisterParquet(self, c, env))

\* register_table that skips the named registration when the name is "t".
register_table_dedup(self, c, env) ==
    IF self.kind = "Delta"
    THEN TableT(RegisterDelta(self, c, env,
                   IF self.delta_table.name = {Fallback}
                   THEN <<Fallback>> ELSE DeltaNames(self.delta_table)))
    ELSE TableT(RegisterParquet(self, c, env))

\* Table::register_table
register_table(self, c, env) ==
    IF self.kind = "Delta"
    THEN TableT(RegisterDelta(self, c, env, DeltaNames(self.delta_table)))
    ELSE TableT(RegisterParquet(self, c, env))

\* Table::files
files(self, c, env) ==
    IF self.kind = "Delta"
    THEN IF env.uris = {}
         THEN Effect(Delta("get_file_uris"), c, <<>>,
                     <<Call("DeltaTable::get_file_uris")>>)
         ELSE Effect(Ok, c, <<[tag |-> "files", files |-> TheOne(env.uris)]>>,
                     <<Call("DeltaTable::get_file_uris")>>)
    ELSE Effect(Ok, c, <<[tag |-> "files", files |-> <<self.table_path>>]>>, <<>>)

\* schema that registers the table for both kinds.
schema_registers(self, c, env) ==
    LET r == register_table(self, c, env)
    IN IF ~r.result.ok
       THEN Effect(r.result, r.ctx, <<>>, r.calls)
       ELSE Effect(Ok, r.ctx,
                   <<[tag |-> "schema", fields |-> r.dataframe]>>, r.calls)

\* Table::schema
schema(self, c, env) ==
    IF self.kind = "Delta"
    THEN IF env.schema = {}
         THEN Effect(Ok, c, <<[tag |-> "no_schema"]>>,
                     <<Call("DeltaTable::schema")>>)
         ELSE Effect(Ok, c, <<[tag |-> "schema", fields |-> TheOne(env.schema)]>>,
                     <<Call("DeltaTable::schema")>>)
    ELSE LET r == register_table(self, c, env)
         IN IF ~r.result.ok
            THEN Effect(r.result, r.ctx, <<>>, r.calls)
            ELSE Effect(Ok, r.ctx,
                        <<[tag |-> "schema", fields |-> r.dataframe]>>, r.calls)

\* version that fails on a table that is not a Delta table.
version_fatal(self, c) ==
    IF self.kind = "Delta"
    THEN Effect(Ok, c,
                <<[tag |-> "version", version |-> self.delta_table.version]>>,
                <<Call("DeltaTable::version")>>)
    ELSE Effect(UnknownTableFormat, c, <<>>, <<>>)

\* Table::version
version(self, c) ==
    IF self.kind = "Delta"
    THEN Effect(Ok, c,
                <<[tag |-> "version", version |-> self.delta_table.version]>>,
                <<Call("DeltaTable::version")>>)
    ELSE Effect(Ok, c,
                <<[tag |-> "unsupported", op |-> "version", table |-> self]>>,
                <<>>)

\* Table::metadata
metadata(self, c, env) ==
    IF self.kind = "Delta"
    THEN IF ~env.metadataOk
         THEN Effect(Delta("metadata"), c, <<>>, <<Call("DeltaTable::metadata")>>)
         ELSE Effect(Ok, c,
                     <<[tag |-> "metadata", name |-> self.delta_table.name]>>,
                     <<Call("DeltaTable::metadata")>>)
    ELSE LET r == register_table(self, c, env)
         IN IF ~r.result.ok
            THEN Effect(r.result, r.ctx, <<>>, r.calls)
            ELSE Effect(Ok, r.ctx,
                        <<[tag |-> "metadata", name |-> {}]>>, r.calls)

\* history that asks the backend for one commit when no limit is given.
history_default_limit(self, c, limit, env) ==
    IF self.kind = "Delta"
    THEN LET l == IF limit = {} THEN {1} ELSE limit
             cs == <<[api |-> "DeltaTable::history", limit |-> l]>>
         IN IF ~env.historyOk
            THEN Effect(Delta("history"), c, <<>>, cs)
            ELSE LET commits == BackendHistory(self.delta_table, l)
                 IN Effect(Ok, c,
                           <<[tag |-> "history"]>>
                           \o [i \in 1..Len(commits) |->
                                  [tag |-> "commit", commit |-> commits[i]]],
                           cs)
    ELSE Effect(Ok, c,
                <<[tag |-> "unsupported", op |-> "history", table |-> self]>>,
                <<>>)

\* Table::history
history(self, c, limit, env) ==
    IF self.kind = "Delta"
    THEN LET cs == <<[api |-> "DeltaTable::history", limit |-> limit]>>
         IN IF ~env.historyOk
            THEN Effect(Delta("history"), c, <<>>, cs)
            ELSE LET commits == BackendHistory(self.delta_table, limit)
                 IN Effect(Ok, c,
                           <<[tag |-> "history"]>>
                           \o [i \in 1..Len(commits) |->
                                  [tag |-> "commit", commit |-> commits[i]]],
                           cs)
    ELSE Effect(Ok, c,
                <<[tag |-> "unsupported", op |-> "history", table |-> self]>>,
                <<>>)

\* query that replaces an empty SQL text by a default one.
query_default_sql(self, c, sql, env) ==
    LET r == register_table(self, c, env)
        text == IF sql = "" THEN QueryFrom(Fallback) ELSE sql
    IN IF ~r.result.ok
       THEN Effect(r.result, r.ctx, <<>>, r.calls)
       ELSE LET q == CtxSql(r.ctx, text, env)
                c1 == r.calls \o <<[api |-> "sql", sql |-> text]>>
            IN IF ~q.result.ok
               THEN Effect(q.result, r.ctx, <<>>, c1)
               ELSE IF ~env.showOk
               THEN Effect(DataFusion("Execution", {}), r.ctx, <<>>,
                           c1 \o <<Call("show")>>)
               ELSE Effect(Ok, r.ctx,
                           <<[tag |-> "table", rows |-> q.dataframe.rows]>>,
                           c1 \o <<Call("show")>>)

\* Table::query
query(self, c, sql, env) ==
    LET r == register_table(self, c, env)
    IN IF ~r.result.ok
       THEN Effect(r.result, r.ctx, <<>>, r.calls)
       ELSE LET q == CtxSql(r.ctx, sql, env)
                c1 == r.calls \o <<[api |-> "sql", sql |-> sql]>>
            IN IF ~q.result.ok
               THEN Effect(q.result, r.ctx, <<>>, c1)
               ELSE IF ~env.showOk
               THEN Effect(DataFusion("Execution", {}), r.ctx, <<>>,
                           c1 \o <<Call("show")>>)
               ELSE Effect(Ok, r.ctx,
                           <<[tag |-> "table", rows |-> q.dataframe.rows]>>,
                           c1 \o <<Call("show")>>)

\* The call open_table makes to the table-format library, with its answer:
\* backend is {} when the open fails and {dt} when it loads dt.
OpenCall(table_name, backend) ==
    [api |-> "open_table_with_storage_options", uri |-> table_name,
     ok |-> backend # {}]

\* open_table that hands every extension but "parquet" to the backend.
open_table_guess(table_name, backend) ==
    LET extension == Extension(table_name)
    IN IF extension = {<<"parquet">>}
       THEN [result |-> Ok, table |-> ParquetTable(table_name), calls |-> <<>>]
       ELSE IF backend = {}
       THEN [result |-> Delta("open"), table |-> NoTable,
             calls |-> <<OpenCall(table_name, backend)>>]
       ELSE [result |-> Ok, table |-> DeltaTable(TheOne(backend)),
             calls |-> <<OpenCall(table_name, backend)>>]

\* open_table that answers a failed open with an empty table.
open_table_empty(table_name, backend) ==
    LET extension == Extension(table_name)
    IN IF extension = {<<"parquet">>}
       THEN [result |-> Ok, table |-> ParquetTable(table_name), calls |-> <<>>]
       ELSE IF extension # {}
       THEN [result |-> UnknownTableFormat, table |-> NoTable, calls |-> <<>>]
       ELSE IF backend = {}
       THEN [result |-> Ok,
             table |-> DeltaTable([uri |-> table_name, version |-> 0, name |-> {}]),
             calls |-> <<OpenCall(table_name, backend)>>]
       ELSE [result |-> Ok, table |-> DeltaTable(TheOne(backend)),
             calls |-> <<OpenCall(table_name, backend)>>]

\* open_table that takes every reference ending in ".parquet" for a
\* Parquet file instead of asking Path::extension.
open_table_ends_with(table_name, backend) ==
    LET extension == Extension(table_name)
        n == Len(table_name)
    IN IF n >= 2 /\ SubSeq(table_name, n - 1, n) = <<".", "parquet">>
       THEN [result |-> Ok, table |-> ParquetTable(table_name), calls |-> <<>>]
       ELSE IF extension # {}
       THEN [result |-> UnknownTableFormat, table |-> NoTable, calls |-> <<>>]
       ELSE IF backend = {}
       THEN [result |-> Delta("open"), table |-> NoTable,
             calls |-> <<OpenCall(table_name, backend)>>]
       ELSE [result |-> Ok, table |-> DeltaTable(TheOne(backend)),
             calls |-> <<OpenCall(table_name, backend)>>]

\* open_table
open_table(table_name, backend) ==
    LET extension == Extension(table_name)
    IN IF extension = {<<"parquet">>}
       THEN [result |-> Ok, table |-> ParquetTable(table_name), calls |-> <<>>]
       ELSE IF extension # {}
       THEN [result |-> UnknownTableFormat, table |-> NoTable, calls |-> <<>>]
       ELSE IF backend = {}
       THEN [result |-> Delta("open"), table |-> NoTable,
             calls |-> <<OpenCall(table_name, backend)>>]
       ELSE [result |-> Ok, table |-> DeltaTable(TheOne(backend)),
             calls |-> <<OpenCall(table_name, backend)>>]

(***************************************************************************)
(* main                                                                    *)
(***************************************************************************)
Init ==
    /\ pc = "parse"
    /\ command = NoCommand
    /\ table = NoTable
    /\ ctx = EmptyContext
    /\ calls = <<>>
    /\ stdout = <<>>
    /\ trace = <<>>
    /\ exit = {}

\* Cli::parse: exactly one subcommand with its arguments.
Parse ==
    /\ pc = "parse"
    /\ \E cmd \in Commands : command' = cmd
    /\ pc' = "open"
    /\ UNCHANGED <<table, ctx, calls, stdout, trace, exit>>

\* let table = open_table(&table).await?;
Open ==
    /\ pc = "open"
    /\ \E backend \in {{}} \cup {{dt} : dt \in DeltaTables(command.table)} :
          LET r == open_table(command.table, backend)
          IN /\ table' = r.table
             /\ calls' = calls \o r.calls
             /\ trace' = Append(trace, [step |-> "open_table", result |-> r.result])
             /\ IF r.result.ok
                THEN pc' = "operate" /\ exit' = exit
                ELSE pc' = "done" /\ exit' = {1}
    /\ UNCHANGED <<command, ctx, stdout>>

\* main that returns Ok(()) whatever the operation returned.
FinishIgnoringError(step, e) ==
    /\ ctx' = e.ctx
    /\ calls' = calls \o e.calls
    /\ stdout' = stdout \o e.out
    /\ trace' = Append(trace, [step |-> step, result |-> e.result])
    /\ exit' = {0}
    /\ pc' = "done"
    /\ UNCHANGED <<command, table>>

\* table.<operation>(..).await?; Ok(())
Finish(step, e) ==
    /\ ctx' = e.ctx
    /\ calls' = calls \o e.calls
    /\ stdout' = stdout \o e.out
    /\ trace' = Append(trace, [step |-> step, result |-> e.result])
    /\ exit' = IF e.result.ok THEN {0} ELSE {1}
    /\ pc' = "done"
    /\ UNCHANGED <<command, table>>

Files ==
    /\ pc = "operate" /\ command.name = "files"
    /\ \E u \in {{}} \cup {{f} : f \in FileLists} :
          Finish("files", files(table, ctx, [DefaultEnv EXCEPT !.uris = u]))

Schema ==
    /\ pc = "operate" /\ command.name = "schema"
    /\ \E s \in {{}} \cup {{f} : f \in Schemas}, p \in BOOLEAN :
          Finish("schema", schema(table, ctx,
                 [DefaultEnv EXCEPT !.schema = s, !.parquetOk = p]))

Version ==
    /\ pc = "operate" /\ command.name = "version"
    /\ Finish("version", version(table, ctx))

Metadata ==
    /\ pc = "operate" /\ command.name = "metadata"
    /\ \E m \in BOOLEAN, p \in BOOLEAN :
          Finish("metadata", metadata(table, ctx,
                 [DefaultEnv EXCEPT !.metadataOk = m, !.parquetOk = p]))

History ==
    /\ pc = "operate" /\ command.name = "history"
    /\ \E h \in BOOLEAN :
          Finish("history", history(table, ctx, command.limit,
                 [DefaultEnv EXCEPT !.historyOk = h]))

Query ==
    /\ pc = "operate" /\ command.name = "query"
    /\ \E env \in [uris : {DefaultEnv.uris}, schema : {DefaultEnv.schema},
                   historyOk : {TRUE}, metadataOk : BOOLEAN,
                   parquetOk : BOOLEAN, planOk : BOOLEAN,
                   planMentions : BOOLEAN, showOk : BOOLEAN] :
          Finish("query", query(table, ctx, command.query, env))

Next ==
    \/ Parse
    \/ Open
    \/ Files
    \/ Schema
    \/ Version
    \/ Metadata
    \/ History
    \/ Query

Spec == Init /\ [][Next]_vars

\* What main's Err return prints on standard error.
Stderr ==
    IF pc = "done" /\ trace # <<>> /\ ~trace[Len(trace)].result.ok
    THEN <<trace[Len(trace)].result>>
    ELSE <<>>

TypeOK ==
    /\ pc \in {"parse", "open", "operate", "done"}
    /\ table.kind \in {"None", "Delta", "Parquet"}
    /\ exit \in {{}, {0}, {1}}
    /\ Len(trace) <= 2

(***************************************************************************)
(* Properties                                                              *)
(***************************************************************************)
Parquet == <<"parquet">>

HasCall(api) == \E i \in 1..Len(calls) : calls[i].api = api

Selected == pc # "parse"

Opened == pc \in {"operate", "done"}

OpenCalled == HasCall("open_table_with_storage_options")

OpenFailed ==
    /\ calls # <<>>
    /\ calls[1].api = "open_table_with_storage_options"
    /\ ~calls[1].ok

Ran(op) == pc = "done" /\ command.name = op /\ Len(trace) = 2

IsPrefix(a, b) == Len(a) <= Len(b) /\ a = SubSeq(b, 1, Len(a))

\* C1: a reference whose extension is neither absent nor "parquet" ends the
\* run with UnknownTableFormat: the backend is never called, no operation of
\* a handle runs, nothing is printed and nothing is registered.
C1_UnknownExtensionFails ==
    (Opened /\ Extension(command.table) \notin {{}, {Parquet}}) =>
        /\ pc = "done"
        /\ trace = <<[step |-> "open_table", result |-> UnknownTableFormat]>>
        /\ table = NoTable
        /\ calls = <<>>
        /\ stdout = <<>>
        /\ DOMAIN ctx = {}
        /\ exit = {1}

C1_Witness ==
    /\ pc = "done"
    /\ command.name = "query"
    /\ Extension(command.table) = {<<>>}
    /\ exit = {1}

\* C2: when the backend fails to open a reference without extension, the
\* run ends with Error::Delta wrapping the cause; there is no handle, no
\* operation runs and nothing is printed.
C2_OpenFailureIsError ==
    (Selected /\ Extension(command.table) = {} /\ OpenFailed) =>
        /\ pc = "done"
        /\ trace = <<[step |-> "open_table", result |-> Delta("open")]>>
        /\ table = NoTable
        /\ Len(calls) = 1
        /\ stdout = <<>>
        /\ DOMAIN ctx = {}
        /\ exit = {1}

C2_Witness ==
    /\ pc = "done"
    /\ command.name = "files"
    /\ Extension(command.table) = {}
    /\ OpenFailed
    /\ exit = {1}

\* C3: version and history on a Parquet handle print the "unsupported"
\* message for that handle, call no backend, return Ok and exit 0; every
\* run that prints an "unsupported" message exits 0.
C3_UnsupportedIsInformational ==
    /\ (pc = "done" /\ table.kind = "Parquet"
            /\ command.name \in {"version", "history"}) =>
          /\ stdout = <<[tag |-> "unsupported", op |-> command.name,
                         table |-> table]>>
          /\ calls = <<>>
          /\ trace[2] = [step |-> command.name, result |-> Ok]
          /\ exit = {0}
    /\ (pc = "done" /\ \E i \in 1..Len(stdout) : stdout[i].tag = "unsupported") =>
          /\ exit = {0}
          /\ trace[2].result = Ok

C3_Witness ==
    /\ Ran("history")
    /\ table.kind = "Parquet"
    /\ command.limit = {0}
    /\ exit = {0}

\* C4: once query has registered a Delta table, the context holds the table
\* under "t" and, when the metadata names it N, under N as well, both names
\* resolve to the same table and a query gives the same result through
\* either name; without a logical name "t" is the only name registered.
C4_RegisteredUnderBothNames ==
    (Ran("query") /\ table.kind = "Delta" /\ HasCall("sql")) =>
        LET dt == table.delta_table
        IN IF dt.name = {}
           THEN /\ DOMAIN ctx = {Fallback}
                /\ ctx[Fallback] = table
           ELSE LET N == TheOne(dt.name)
                IN /\ DOMAIN ctx = {N, Fallback}
                   /\ ctx[N] = table
                   /\ ctx[Fallback] = table
                   /\ calls[3] = [api |-> "register_table", name |-> N]
                   /\ calls[4] = [api |-> "register_table", name |-> Fallback]
                   /\ CtxSql(ctx, QueryFrom(N), DefaultEnv).result.ok
                   /\ CtxSql(ctx, QueryFrom(N), DefaultEnv)
                        = CtxSql(ctx, QueryFrom(Fallback), DefaultEnv)

C4_Witness ==
    /\ Ran("query")
    /\ table.kind = "Delta"
    /\ table.delta_table.name = {"events"}
    /\ command.query = QueryFrom("events")
    /\ stdout = <<[tag |-> "table", rows |-> {table}]>>
    /\ exit = {0}

\* C5: a run awaits open_table once and then the selected operation once;
\* while it has not exited it can always take its next step, and once it
\* has exited no step is left; it exits 0 exactly when both calls returned
\* Ok, any error gives exit 1 and nothing is attempted again.
C5_Inv ==
    /\ (pc = "done") <=> (exit # {})
    /\ Len(trace) <= 2
    /\ Cardinality({i \in 1..Len(calls) :
                      calls[i].api = "open_table_with_storage_options"}) <= 1
    /\ pc = "done" =>
          /\ Len(trace) >= 1
          /\ trace[1].step = "open_table"
          /\ Len(trace) = 1 <=> ~trace[1].result.ok
          /\ Len(trace) = 2 => trace[2].step = command.name
          /\ exit \in {{0}, {1}}
          /\ exit = {0} <=> \A i \in 1..Len(trace) : trace[i].result.ok
          /\ exit = {0} => Len(trace) = 2

C5_OneShotExit ==
    /\ C5_Inv
    /\ pc # "done" => ENABLED Next
    /\ pc = "done" => ~ENABLED Next

C5_Witness ==
    /\ pc = "done"
    /\ Len(trace) = 2
    /\ ~trace[2].result.ok
    /\ exit = {1}

\* C6: history on a Delta table hands the user's limit to the backend as
\* given; what it prints is the whole commit list when the limit is absent
\* and the first limit entries of that list otherwise (none for limit 0).
PrintedCommits == [i \in 1..(Len(stdout) - 1) |-> stdout[i + 1].commit]

C7_State ==
    /\ (Opened /\ Extension(command.table) = {Parquet}) =>
          /\ table = ParquetTable(command.table)
          /\ ~OpenCalled
    /\ (Ran("files") /\ Extension(command.table) = {Parquet}) =>
          /\ stdout = <<[tag |-> "files", files |-> <<command.table>>]>>
          /\ calls = <<>>
          /\ exit = {0}
    /\ table.kind = "Delta" => Extension(command.table) = {}
    /\ table.kind = "Parquet" => Extension(command.table) = {Parquet}
    /\ (pc = "operate" /\ Extension(command.table) = {}) => table.kind = "Delta"

C7_ParquetHandle ==
    /\ []C7_State
    /\ [][table.kind # "None" => table' = table]_vars

C7_Witness ==
    /\ Ran("files")
    /\ command.table = <<".", ".", "parquet">>
    /\ table.kind = "Parquet"
    /\ exit = {0}

\* C8: a second registration of a name is rejected by the context and ends
\* the run with that error; a Delta table whose logical name is "t" is
\* registered under "t" twice, so its query always ends that way.
C8_DuplicateRegistration ==
    /\ \A i, j \in 1..Len(calls) :
          (/\ i < j
           /\ calls[i].api = "register_table"
           /\ calls[j].api = "register_table"
           /\ calls[i].name = calls[j].name) =>
              /\ j = Len(calls)
              /\ pc = "done"
              /\ trace[2].result = DataFusion("TableExists", {})
              /\ stdout = <<>>
              /\ exit = {1}
    /\ (Ran("query") /\ table.kind = "Delta"
            /\ table.delta_table.name = {Fallback} /\ Len(calls) > 2) =>
          /\ SubSeq(calls, 3, Len(calls))
               = <<[api |-> "register_table", name |-> Fallback],
                   [api |-> "register_table", name |-> Fallback]>>
          /\ DOMAIN ctx = {Fallback}
          /\ trace[2].result = DataFusion("TableExists", {})
          /\ exit = {1}

C8_Witness ==
    /\ Ran("query")
    /\ table.kind = "Delta"
    /\ table.delta_table.name = {Fallback}
    /\ trace[2].result = DataFusion("TableExists", {})

\* The SQL text reaches the context as given, once, right after the
\* registration's ctx.table("t"), and never when registration failed.
SqlForwarded ==
    /\ \A i \in 1..Len(calls) :
          calls[i].api = "sql" =>
              /\ calls[i].sql = command.query
              /\ i > 1
              /\ calls[i - 1] = [api |-> "table", name |-> Fallback]
              /\ DOMAIN ctx # {}
    /\ trace[2].result.ok => HasCall("sql")
    /\ trace[2].result.cause \in {"metadata", "register_parquet", "TableExists"}
          => ~HasCall("sql")

\* C9 as stated: the SQL text is forwarded unmodified after registration,
\* and every failure of query is a DataFusion error that echoes the SQL text.
C9_ErrorEchoesSql ==
    Ran("query") =>
        /\ SqlForwarded
        /\ ~trace[2].result.ok =>
              /\ exit = {1}
              /\ trace[2].result.kind = "DataFusion"
              /\ command.query # "" =>
                    command.query \in trace[2].result.mentions

\* C9 amended: the SQL text is forwarded unmodified after registration;
\* every failure of query ends the run with the underlying cause wrapped,
\* as Error::Delta for a failed metadata read and as Error::DataFusion
\* otherwise; the error holds nothing but that cause, and a failure before
\* the SQL text was submitted never mentions it.
C9_ErrorWrapsCause ==
    Ran("query") =>
        /\ SqlForwarded
        /\ ~trace[2].result.ok =>
              /\ exit = {1}
              /\ Stderr = <<trace[2].result>>
              /\ trace[2].result.kind \in {"DataFusion", "Delta"}
              /\ trace[2].result.kind = "Delta" <=> trace[2].result.cause = "metadata"
              /\ trace[2].result.mentions \subseteq {command.query}
              /\ ~HasCall("sql") => trace[2].result.mentions = {}

C9_Witness ==
    /\ Ran("query")
    /\ command.query = ""
    /\ calls[Len(calls)] = [api |-> "sql", sql |-> ""]
    /\ trace[2].result.cause = "Plan"
    /\ exit = {1}

\* C10: the context stays empty under files, version and history, and under
\* schema and metadata of a Delta table; a Parquet table registers only
\* "t"; no run registers more than two names.
C10_ContextFrame ==
    /\ (Selected /\ command.name \in {"files", "version", "history"})
          => DOMAIN ctx = {}
    /\ (Selected /\ command.name \in {"schema", "metadata"}
            /\ table.kind # "Parquet") => DOMAIN ctx = {}
    /\ table.kind # "Delta" => DOMAIN ctx \subseteq {Fallback}
    /\ DOMAIN ctx # {} =>
          /\ pc = "done"
          /\ \/ command.name = "query"
             \/ command.name \in {"schema", "metadata"} /\ table.kind = "Parquet"
    /\ Cardinality(DOMAIN ctx) <= 2
    /\ pc # "done" => DOMAIN ctx = {}

C10_Witness ==
    /\ Ran("schema")
    /\ table.kind = "Delta"
    /\ stdout # <<>>
    /\ DOMAIN ctx = {}
    /\ exit = {0}

====
